---- MODULE Spec2Model ----
(***************************************************************************)
(* HubbClips-Pro: the media-processing services of the main process        *)
(* (src/main.js: VideoProcessor, AudioProcessor) and the renderer-side API *)
(* of the preload script (src/unnamed/part_000: mediaAPI, eventAPI,        *)
(* validationAPI, processMedia).                                           *)
(*                                                                         *)
(* Six specifications over one set of variables; each leaves the          *)
(* variables of the others at their idle values:                           *)
(*   Spec         one request travelling from a renderer entry point to    *)
(*                the engine (fluent-ffmpeg command) and back, with the    *)
(*                temp directory and the progress events the subscriber    *)
(*                sees;                                                    *)
(*   SpecFilter   VideoProcessor.buildMergeFilter as a pure function of    *)
(*                its arguments;                                           *)
(*   SpecPresets  the quality and resolution lookups of trimSegment and    *)
(*                getOutputSettings as pure functions of the options;      *)
(*   SpecEstimate encodingAPI.estimateFileSize as a pure function;         *)
(*   SpecTracker  one progress tracker of eventAPI.createProgressTracker   *)
(*                with its callbacks, listeners and incoming events;       *)
(*   SpecCache    cacheAPI's thumbnail cache under a moving clock.         *)
(***************************************************************************)
EXTENDS Integers, Sequences, FiniteSets, TLC

VARIABLES
    files,        \* path -> "absent" | "partial" | "complete"
    request,      \* the renderer's call: entry point and arguments
    call,         \* the command handed to executeCommand, or NoCall
    engine,       \* "none" | "spawned" | "running" | "ended" | "errored"
    events,       \* what onOperationProgress delivered for the current command
    promise,      \* the promise of the current entry-point call
    invocations,  \* number of command.run() calls made for the request
    cleanupLog,   \* paths whose unlink threw inside cleanupSegments
    batch,        \* processBatch: [ops, idx, results], or NoBatch
    fPhase,       \* SpecFilter: "input" | "built"
    fSegments,    \* SpecFilter: the segments argument
    fTransitions, \* SpecFilter: the transitions argument
    fGraph,       \* SpecFilter: the value buildMergeFilter returned
    qPhase,       \* SpecPresets: "input" | "merge" | "trim"
    qInput,       \* SpecPresets: the options / settings argument
    qResult,      \* SpecPresets: the option list, or the error thrown
    ePhase,       \* SpecEstimate: "input" | "estimated"
    eInput,       \* SpecEstimate: [duration, settings]
    eResult,      \* SpecEstimate: the value estimateFileSize returned
    tOperations,  \* SpecTracker: tracker.operations, in insertion order
    tCallbacks,   \* SpecTracker: tracker.callbacks
    tListeners,   \* SpecTracker: track() calls whose channel listener is attached
    tUnsubscribed,\* SpecTracker: track() calls whose unsubscribe was invoked
    tLast,        \* SpecTracker: the callback invocations of the latest step
    cClock,       \* SpecCache: Date.now()
    cTicks,       \* SpecCache: number of clock advances so far
    cCache,       \* SpecCache: thumbnailCache, file -> entry
    cLast         \* SpecCache: the latest cacheAPI call and what it returned

vars == <<files, request, call, engine, events, promise, invocations,
          cleanupLog, batch, fPhase, fSegments, fTransitions, fGraph,
          qPhase, qInput, qResult, ePhase, eInput, eResult,
          tOperations, tCallbacks, tListeners, tUnsubscribed, tLast,
          cClock, cTicks, cCache, cLast>>

pipelineVars == <<files, request, call, engine, events, promise, invocations,
                  cleanupLog, batch>>

filterVars == <<fPhase, fSegments, fTransitions, fGraph>>

presetVars == <<qPhase, qInput, qResult>>

estimateVars == <<ePhase, eInput, eResult>>

trackerVars == <<tOperations, tCallbacks, tListeners, tUnsubscribed, tLast>>

cacheVars == <<cClock, cTicks, cCache, cLast>>

\* everything outside the request pipeline
libraryVars == <<filterVars, presetVars, estimateVars, trackerVars, cacheVars>>

(***************************************************************************)
(* Bounds                                                                  *)
(***************************************************************************)
\* largest number of segments in a merge, and of operations in a batch
MaxSegments == 3
\* largest number of progress reports of one engine run
MaxProgress == 2
\* largest number of track() calls made on one tracker
MaxCallbacks == 2
\* longest duration, in minutes, of the dense range given to estimateFileSize
MaxDuration == 30
\* largest number of clock advances between the calls made on the cache
MaxTicks == 4

(***************************************************************************)
(* Small helpers                                                           *)
(***************************************************************************)
RECURSIVE SeqsUpTo(_, _)
SeqsUpTo(S, n) ==
    IF n = 0 THEN {<<>>}
    ELSE LET shorter == SeqsUpTo(S, n - 1)
         IN  shorter \cup {Append(s, x) : s \in {t \in shorter : Len(t) = n - 1}, x \in S}

RECURSIVE SumTo(_, _)
SumTo(f, n) == IF n = 0 THEN 0 ELSE f[n] + SumTo(f, n - 1)

Has(rec, key) == key \in DOMAIN rec

(***************************************************************************)
(* VideoProcessor.buildMergeFilter (src/main.js 150-175).                  *)
(* The returned text is modelled token by token, in the order the code     *)
(* writes it: a stream label "[...]", a filter with its parameters, or the *)
(* ";" that ends a filter chain.                                           *)
(***************************************************************************)
\* "[<index>:v]" / "[<index>:a]": stream `media` of input number `index`
InputPad(index, media) == [k |-> "label", base |-> "input", media |-> media, idx |-> index]
\* "[v<i>]" / "[a<i>]"
ChainLabel(media, i) == [k |-> "label", base |-> "chain", media |-> media, idx |-> i]
\* "[outv]" / "[outa]"
OutLabel(media) == [k |-> "label", base |-> "out", media |-> media, idx |-> 0]
\* "concat=n=<n>:v=1:a=1"
ConcatNode(n) == [k |-> "concat", n |-> n, v |-> 1, a |-> 1]
\* "xfade=transition=fade:duration=<duration>:offset=<offset>"
XfadeNode(duration, offset) ==
    [k |-> "xfade", transition |-> "fade", duration |-> duration, offset |-> offset]
\* "acrossfade=d=<duration>"
AcrossfadeNode(duration) == [k |-> "acrossfade", d |-> duration]
Semicolon == [k |-> "sep"]

\* transitions[i]?.duration || 1   (i is the 0-based index of the code)
transitionDuration(transitions, i) ==
    IF i + 1 <= Len(transitions)
       /\ Has(transitions[i + 1], "duration")
       /\ transitions[i + 1].duration # 0
    THEN transitions[i + 1].duration
    ELSE 1

\* segments[i].duration - duration
xfadeOffset(segments, transitions, i) ==
    segments[i + 1].duration - transitionDuration(transitions, i)

\* segments.map((_, index) => `[${index}:v][${index}:a]`).join('')
RECURSIVE inputPairs(_)
inputPairs(n) ==
    IF n = 0 THEN <<>>
    ELSE inputPairs(n - 1) \o <<InputPad(n - 1, "v"), InputPad(n - 1, "a")>>

concatFilter_WrongCount(segments) ==
    inputPairs(Len(segments))
        \o <<ConcatNode(Len(segments) - 1), OutLabel("v"), OutLabel("a")>>

\* the transitions.length === 0 branch
concatFilter(segments) ==
    inputPairs(Len(segments))
        \o <<ConcatNode(Len(segments)), OutLabel("v"), OutLabel("a")>>

\* one iteration of the loop, video part
videoStep(segments, transitions, i) ==
    LET duration == transitionDuration(transitions, i)
        offset   == xfadeOffset(segments, transitions, i)
    IN  IF i = 0
        THEN <<InputPad(0, "v"), InputPad(1, "v"), XfadeNode(duration, offset),
               ChainLabel("v", i), Semicolon>>
        ELSE <<ChainLabel("v", i - 1), InputPad(i + 1, "v"), XfadeNode(duration, offset),
               ChainLabel("v", i), Semicolon>>

\* one iteration of the loop, audio part
audioStep(segments, transitions, i) ==
    LET duration == transitionDuration(transitions, i)
    IN  IF i = 0
        THEN <<InputPad(0, "a"), InputPad(1, "a"), AcrossfadeNode(duration),
               ChainLabel("a", i), Semicolon>>
        ELSE <<ChainLabel("a", i - 1), InputPad(i + 1, "a"), AcrossfadeNode(duration),
               ChainLabel("a", i), Semicolon>>

\* videoFilter after the iterations 0 .. count-1
RECURSIVE videoFilter(_, _, _)
videoFilter(segments, transitions, count) ==
    IF count <= 0 THEN <<>>
    ELSE videoFilter(segments, transitions, count - 1)
             \o videoStep(segments, transitions, count - 1)

\* audioFilter after the iterations 0 .. count-1
RECURSIVE audioFilter(_, _, _)
audioFilter(segments, transitions, count) ==
    IF count <= 0 THEN <<>>
    ELSE audioFilter(segments, transitions, count - 1)
             \o audioStep(segments, transitions, count - 1)

crossfadeFilter_ShortLoop(segments, transitions) ==
    LET lastIndex == Len(segments) - 2
    IN  videoFilter(segments, transitions, Len(segments) - 2)
            \o audioFilter(segments, transitions, Len(segments) - 2)
            \o <<ChainLabel("v", lastIndex), ChainLabel("a", lastIndex)>>

\* the branch taken when transitions is not empty
crossfadeFilter(segments, transitions) ==
    LET lastIndex == Len(segments) - 2
    IN  videoFilter(segments, transitions, Len(segments) - 1)
            \o audioFilter(segments, transitions, Len(segments) - 1)
            \o <<ChainLabel("v", lastIndex), ChainLabel("a", lastIndex)>>

buildMergeFilter(segments, transitions) ==
    IF Len(transitions) = 0
    THEN concatFilter(segments)
    ELSE crossfadeFilter(segments, transitions)

(***************************************************************************)
(* SpecFilter: buildMergeFilter applied to every bounded argument pair.    *)
(* mergeVideos calls it only with two or more segments (main.js 86-98).    *)
(***************************************************************************)
SegmentDurations == {4, 7}

\* a transition entry: without a duration, with duration 0, or with a positive one
FilterTransitions ==
    {[type |-> "crossfade"]} \cup {[type |-> "crossfade", duration |-> d] : d \in {0, 1, 2}}

FilterSegmentLists ==
    {s \in SeqsUpTo({[duration |-> d] : d \in SegmentDurations}, MaxSegments) : Len(s) >= 2}

FilterTransitionLists == SeqsUpTo(FilterTransitions, MaxSegments)

(***************************************************************************)
(* The temp directory and the files a request names                        *)
(***************************************************************************)
\* path.join(this.tempDir, `segment_${segmentId}.mp4`)
SegmentPath(segmentId) == [kind |-> "segment", id |-> segmentId]
\* the outputPath a merge or audio request carries
OutputPath == [kind |-> "output", id |-> 0]

SegmentIds == 1 .. MaxSegments
Paths == {SegmentPath(i) : i \in SegmentIds} \cup {OutputPath}

\* executeCommand(command, outputPath, operation, segmentId = null)
NullSegmentId == 0

NoCall == [operation |-> "none"]
NoBatch == [idx |-> 0, results |-> <<>>, done |-> FALSE]
NoRequest == [entry |-> "none"]

Pending == [state |-> "pending"]
Resolved(value) == [state |-> "resolved", value |-> value]
Rejected(error) == [state |-> "rejected", error |-> error]
Settled == promise.state \in {"resolved", "rejected"}

\* new Error(message), with the values interpolated into the message kept apart
Error(message, detail) == [message |-> message, detail |-> detail]

(***************************************************************************)
(* Renderer side: validationAPI (part_000 313-390)                         *)
(* A time value is a JS number, or a string holding a number:              *)
(* [str |-> FALSE, num |-> 5] is 5 and [str |-> TRUE, num |-> 5] is "5".   *)
(***************************************************************************)
Number(n) == [str |-> FALSE, num |-> n]
String(n) == [str |-> TRUE, num |-> n]

\* parseFloat(x) || 0 applied to the string-typed values only
sanitizeTime(t) == IF t.str THEN Number(IF t.num # 0 THEN t.num ELSE 0) ELSE t

sanitizeOptions(options) ==
    [key \in DOMAIN options |->
        IF key \in {"startTime", "endTime"} THEN sanitizeTime(options[key])
        ELSE options[key]]

validExtensions ==
    {".mp4", ".avi", ".mov", ".mkv", ".webm", ".flv",
     ".mp3", ".wav", ".aac", ".m4a", ".flac", ".ogg",
     ".jpg", ".jpeg", ".png", ".bmp", ".tiff", ".webp"}

validateFilePath(filePath) ==
    IF filePath.ext \notin validExtensions
    THEN [valid |-> FALSE, error |-> Error("Unsupported file format", <<filePath.ext>>)]
    ELSE [valid |-> TRUE]

startTimeError(options) ==
    IF options.startTime.str \/ options.startTime.num < 0
    THEN <<"Valid start time required">> ELSE <<>>

\* typeof options.endTime !== 'number' || options.endTime <= options.startTime
\* (a number compared with a numeric string is compared by value)
endTimeError(options) ==
    IF options.endTime.str \/ options.endTime.num <= options.startTime.num
    THEN <<"End time must be greater than start time">> ELSE <<>>

\* validateProcessingOptions(options, 'trim'); inputPath is never empty here
validateTrim(options) ==
    LET errors == startTimeError(options) \o endTimeError(options)
    IN  [valid |-> Len(errors) = 0, errors |-> errors]

(***************************************************************************)
(* Main process: the commands handed to executeCommand                     *)
(***************************************************************************)
\* what .run() starts: the command is with the engine, no event seen yet
Invoke(command) ==
    [call |-> command, engine |-> "spawned", promise |-> Pending, runs |-> 1]
\* the call settles without reaching the engine
Refuse(error) ==
    [call |-> NoCall, engine |-> "none", promise |-> Rejected(error), runs |-> 0]

(***************************************************************************)
(* Main process: quality and resolution presets (main.js 17-25, 178-211)   *)
(***************************************************************************)
\* FFmpegConfig.getQualityPresets()
getQualityPresets ==
    [ultra  |-> [crf |-> 18, preset |-> "slow",   bitrate |-> "12M"],
     high   |-> [crf |-> 20, preset |-> "medium", bitrate |-> "8M"],
     medium |-> [crf |-> 23, preset |-> "medium", bitrate |-> "5M"],
     fast   |-> [crf |-> 28, preset |-> "fast",   bitrate |-> "3M"],
     copy   |-> [codec |-> "copy"]]

\* the resolutionMap literal of getOutputSettings, keyed by resolution name
resolutionMap ==
    [name \in {"4K", "1080p", "720p", "480p"} |->
        CASE name = "4K"    -> "3840x2160"
          [] name = "1080p" -> "1920x1080"
          [] name = "720p"  -> "1280x720"
          [] name = "480p"  -> "854x480"]

\* reading a property of undefined, or calling a method on undefined
TypeError(property) ==
    Error("Cannot read properties of undefined", <<property>>)

\* settings.name || fallback, for the string-valued settings
nameOr(settings, key, fallback) ==
    IF Has(settings, key) /\ settings[key] # "" THEN settings[key] ELSE fallback

\* settings.bitrate || fallback
bitrateOr(settings, fallback) ==
    IF Has(settings, "bitrate") /\ settings.bitrate # 0
    THEN settings.bitrate ELSE fallback

\* VideoProcessor.getOutputSettings(settings): the option list, or the
\* TypeError thrown while building it. `${bitrate * 1.5}M` is kept in tenths.
getOutputSettings(settings) ==
    LET quality    == nameOr(settings, "quality", "high")
        resolution == nameOr(settings, "resolution", "1080p")
        bitrate    == bitrateOr(settings, 8)
        qualitySettings == getQualityPresets[quality]
        base == [vcodec   |-> "libx264", acodec |-> "aac", abitrate |-> "192k",
                 preset   |-> qualitySettings.preset,
                 crf      |-> String(qualitySettings.crf),
                 movflags |-> "+faststart", pix_fmt |-> "yuv420p",
                 maxrateTenthsM |-> bitrate * 15,
                 bufsizeM       |-> bitrate * 2]
    IN  IF quality \notin DOMAIN getQualityPresets
        THEN [ok |-> FALSE, error |-> TypeError("preset")]
        ELSE IF ~Has(qualitySettings, "crf")
        THEN [ok |-> FALSE, error |-> TypeError("toString")]
        ELSE IF resolution \in DOMAIN resolutionMap
        THEN [ok |-> TRUE, options |-> base @@ [size |-> resolutionMap[resolution]]]
        ELSE [ok |-> TRUE, options |-> base]

\* `${value}` of a preset field: the text "undefined" for a field left out
template(qualitySettings, field) ==
    IF Has(qualitySettings, field)
    THEN [text |-> "value", value |-> qualitySettings[field]]
    ELSE [text |-> "undefined"]

\* the encoding branch of VideoProcessor.trimSegment (main.js 48, 57-73);
\* effects are kept as the list of their type names
trimEncoding(options) ==
    LET quality == IF Has(options, "quality") THEN options.quality ELSE "high"
        effects == IF Has(options, "effects") THEN options.effects ELSE <<>>
        qualitySettings == getQualityPresets[quality]
    IN  IF options.startTime = Number(0) /\ Len(effects) = 0 /\ quality = "copy"
        THEN [ok |-> TRUE, options |-> [vcodec |-> "copy", acodec |-> "copy"]]
        ELSE IF quality \notin DOMAIN getQualityPresets
        THEN [ok |-> FALSE, error |-> TypeError("crf")]
        ELSE [ok |-> TRUE,
              options |-> [vcodec   |-> "libx264", acodec |-> "aac",
                           abitrate |-> "192k",
                           crf      |-> template(qualitySettings, "crf"),
                           preset   |-> template(qualitySettings, "preset"),
                           movflags |-> "+faststart", pix_fmt |-> "yuv420p"]]

\* VideoProcessor.trimSegment: seekInput(startTime), duration(endTime - startTime);
\* a TypeError thrown in the promise executor rejects before executeCommand
trimSegment(options) ==
    IF ~trimEncoding(options).ok
    THEN Refuse(trimEncoding(options).error)
    ELSE Invoke([operation  |-> "trim",
                 segmentId  |-> options.segmentId,
                 outputPath |-> SegmentPath(options.segmentId),
                 seekInput  |-> options.startTime,
                 duration   |-> options.endTime.num - options.startTime.num,
                 segments   |-> <<>>,
                 transitions |-> <<>>])

required == <<"inputPath", "startTime", "endTime", "segmentId">>

\* mediaAPI.trimVideoSegment
trimVideoSegment(options) ==
    LET missing == SelectSeq(required, LAMBDA key : ~Has(options, key))
    IN  IF Len(missing) > 0
        THEN Refuse(Error("Missing required parameters", missing))
        ELSE trimSegment(options)

\* processMedia.trim
processMediaTrim(options) ==
    LET sanitized  == sanitizeOptions(options)
        validation == validateTrim(sanitized)
        pathValidation == validateFilePath(sanitized.inputPath)
    IN  IF ~validation.valid
        THEN Refuse(Error("Validation failed", validation.errors))
        ELSE IF ~pathValidation.valid
        THEN Refuse(pathValidation.error)
        ELSE trimVideoSegment(sanitized)

\* AudioProcessor.extractAudio / replaceAudio
audioCommand(operation) ==
    Invoke([operation  |-> operation,
            segmentId  |-> NullSegmentId,
            outputPath |-> OutputPath,
            segments   |-> <<>>,
            transitions |-> <<>>])

\* VideoProcessor.mergeVideos, the path of two or more segments
mergeCommand(segments, transitions) ==
    Invoke([operation  |-> "merge",
            segmentId  |-> NullSegmentId,
            outputPath |-> OutputPath,
            segments   |-> segments,
            transitions |-> transitions])

\* command.complexFilter(filterComplex) of the merge command in flight
filterComplex == buildMergeFilter(call.segments, call.transitions)

(***************************************************************************)
(* Progress events: VideoProcessor.sendProgress -> "operation-progress" -> *)
(* the handler eventAPI.onOperationProgress registers.  timestamp, fps and *)
(* speed are carried through unchanged and are left out.                   *)
(***************************************************************************)
NoError == "undefined"

\* mainWindow.webContents.send('operation-progress', {operation, stage, ...data})
sendProgress(operation, stage, data) ==
    [operation |-> operation, stage |-> stage] @@ data

\* the callback argument built by onOperationProgress's handler
handler(data) ==
    [operation |-> data.operation,
     stage     |-> data.stage,
     percent   |-> IF Has(data, "percent") /\ data.percent # 0 THEN data.percent ELSE 0,
     segmentId |-> data.segmentId,
     error     |-> IF Has(data, "error") THEN data.error ELSE NoError]

\* the subscriber's stream after one more send
Deliver(data) == Append(events, handler(data))

Min(a, b) == IF a < b THEN a ELSE b
Max(a, b) == IF a > b THEN a ELSE b

\* Math.max(0, Math.min(100, progress.percent || 0))
clampPercent(progress) ==
    Max(0, Min(100, IF Has(progress, "percent") /\ progress.percent # 0
                    THEN progress.percent ELSE 0))

\* the progress objects the engine may report: without a percent, or with one
RawProgress == {[frames |-> 1]} \cup {[frames |-> 1, percent |-> p] : p \in {-10, 60, 150}}

TerminalStages == {"completed", "error", "cancelled"}

(***************************************************************************)
(* File operations of the main process                                     *)
(***************************************************************************)
Exists(fs, path) == fs[path] # "absent"

cleanupSegments_SkipsFirst(fs, segments, failing) ==
    LET paths   == {segments[i].path : i \in 2 .. Len(segments)}
        present == {p \in paths : Exists(fs, p)}
    IN  [files |-> [p \in DOMAIN fs |->
                       IF p \in present \ failing THEN "absent" ELSE fs[p]],
         log   |-> present \cap failing]

\* VideoProcessor.cleanupSegments; `failing` are the paths whose unlinkSync throws
cleanupSegments(fs, segments, failing) ==
    LET paths   == {segments[i].path : i \in 1 .. Len(segments)}
        present == {p \in paths : Exists(fs, p)}
    IN  [files |-> [p \in DOMAIN fs |->
                       IF p \in present \ failing THEN "absent" ELSE fs[p]],
         log   |-> present \cap failing]

handleSingleSegment_UnlinkFirst(fs, inputPath, outputPath, copyOk, unlinkOk) ==
    LET removed == [fs EXCEPT ![inputPath] = "absent"]
    IN  IF ~unlinkOk
        THEN [files |-> fs, promise |-> Rejected(Error("unlinkSync failed", <<>>))]
        ELSE IF ~copyOk
        THEN [files |-> removed,
              promise |-> Rejected(Error("copyFileSync failed", <<>>))]
        ELSE [files |-> [removed EXCEPT ![outputPath] = fs[inputPath]],
              promise |-> Resolved([success |-> TRUE, outputPath |-> outputPath])]

\* VideoProcessor.handleSingleSegment; copyOk / unlinkOk: whether the fs call returns
handleSingleSegment(fs, inputPath, outputPath, copyOk, unlinkOk) ==
    IF ~copyOk
    THEN [files |-> fs, promise |-> Rejected(Error("copyFileSync failed", <<>>))]
    ELSE LET copied == [fs EXCEPT ![outputPath] = fs[inputPath]]
         IN  IF ~unlinkOk
             THEN [files |-> copied,
                   promise |-> Rejected(Error("unlinkSync failed", <<>>))]
             ELSE [files |-> [copied EXCEPT ![inputPath] = "absent"],
                   promise |-> Resolved([success |-> TRUE, outputPath |-> outputPath])]

\* the files an engine run reads from the temp directory
InputsPresent ==
    \A i \in 1 .. Len(call.segments) : Exists(files, call.segments[i].path)

(***************************************************************************)
(* Inputs of the requests                                                  *)
(***************************************************************************)
InputPaths == {[base |-> "clip", ext |-> ".mp4"], [base |-> "notes", ext |-> ".txt"]}
TimeValues(S) == {Number(n) : n \in S} \cup {String(n) : n \in S}

\* options of a single trim request; segmentId may be left out by the caller
TrimOptions ==
    LET full == {[inputPath |-> p, startTime |-> s, endTime |-> e, segmentId |-> 1] :
                    p \in InputPaths,
                    s \in TimeValues({-2, 0, 5}),
                    e \in TimeValues({3, 5})}
    IN  full \cup {[key \in DOMAIN o \ {"segmentId"} |-> o[key]] : o \in full}

\* the temp segment a merge names at position i, with its probed duration
Segment(i) == [path |-> SegmentPath(i), duration |-> 3 + 2 * i]
MergeSegmentLists == {[i \in 1 .. n |-> Segment(i)] : n \in 0 .. MaxSegments}
MergeTransitions == {[type |-> "crossfade"], [type |-> "crossfade", duration |-> 2]}
MergeTransitionLists == SeqsUpTo(MergeTransitions, MaxSegments)

\* the settings of a merge request: the renderer's defaults, a quality name
\* and a resolution name outside the presets
MergeSettings ==
    {[quality |-> "high", resolution |-> "1080p", bitrate |-> 8],
     [quality |-> "lossless"],
     [resolution |-> "8K"]}

\* the operations of a batch: position i prepares segment i
BatchOperation(i) ==
    {[id |-> i, type |-> "trim",
      options |-> [inputPath |-> [base |-> "clip", ext |-> ".mp4"],
                   startTime |-> Number(t[1]), endTime |-> Number(t[2]),
                   segmentId |-> i]] : t \in {<<0, 5>>, <<5, 3>>}}
    \cup {[id |-> i, type |-> "rotate", options |-> [segmentId |-> i]]}

RECURSIVE BatchesOfLength(_)
BatchesOfLength(n) ==
    IF n = 0 THEN {<<>>}
    ELSE {Append(b, op) : b \in BatchesOfLength(n - 1), op \in BatchOperation(n)}

Batches == UNION {BatchesOfLength(n) : n \in 0 .. MaxSegments}

(***************************************************************************)
(* Spec: the entry points of the renderer                                  *)
(***************************************************************************)
Idle == request = NoRequest

\* the state after an entry point has run up to its first suspension
Enter(req, effect) ==
    /\ request' = req
    /\ call' = effect.call
    /\ engine' = effect.engine
    /\ promise' = effect.promise
    /\ invocations' = invocations + effect.runs
    /\ events' = <<>>

\* electronAPI.processMedia.trim(options)
ProcessMediaTrim ==
    /\ Idle
    /\ \E options \in TrimOptions :
           Enter([entry |-> "processMedia.trim", options |-> options],
                 processMediaTrim(options))
    /\ UNCHANGED <<files, cleanupLog, batch, libraryVars>>

\* electronAPI.trimVideoSegment(options)
TrimVideoSegment ==
    /\ Idle
    /\ \E options \in TrimOptions :
           Enter([entry |-> "trimVideoSegment", options |-> options],
                 trimVideoSegment(options))
    /\ UNCHANGED <<files, cleanupLog, batch, libraryVars>>

\* electronAPI.extractAudio(options)
ExtractAudio ==
    /\ Idle
    /\ Enter([entry |-> "extractAudio"], audioCommand("extract-audio"))
    /\ UNCHANGED <<files, cleanupLog, batch, libraryVars>>

\* electronAPI.replaceAudio(options), mode 'replace' or 'mix'
ReplaceAudio ==
    /\ Idle
    /\ \E mode \in {"replace", "mix"} :
           Enter([entry |-> "replaceAudio", mode |-> mode], audioCommand("replace-audio"))
    /\ UNCHANGED <<files, cleanupLog, batch, libraryVars>>

MergeVideos_NoBypass ==
    /\ Idle
    /\ \E segments \in MergeSegmentLists, transitions \in MergeTransitionLists,
          settings \in MergeSettings :
           LET req == [entry |-> "mergeVideos", segments |-> segments,
                       transitions |-> transitions, settings |-> settings]
           IN  IF Len(segments) = 0
               THEN Enter(req, Refuse(Error("No segments provided for merging", <<>>)))
               ELSE Enter(req, IF getOutputSettings(settings).ok
                               THEN mergeCommand(segments, transitions)
                               ELSE Refuse(getOutputSettings(settings).error))
    /\ UNCHANGED <<files, cleanupLog, batch, libraryVars>>

\* electronAPI.mergeVideos(options): mediaAPI.mergeVideos, then
\* VideoProcessor.mergeVideos up to executeCommand's run()
MergeVideos ==
    /\ Idle
    /\ \E segments \in MergeSegmentLists, transitions \in MergeTransitionLists,
          settings \in MergeSettings, copyOk \in BOOLEAN, unlinkOk \in BOOLEAN :
           LET req == [entry |-> "mergeVideos", segments |-> segments,
                       transitions |-> transitions, settings |-> settings]
           IN  IF Len(segments) = 0
               THEN /\ Enter(req, Refuse(Error("No segments provided for merging", <<>>)))
                    /\ UNCHANGED files
               ELSE IF Len(segments) = 1
               THEN LET single == handleSingleSegment(
                                      files, segments[1].path, OutputPath,
                                      copyOk /\ Exists(files, segments[1].path), unlinkOk)
                    IN  /\ Enter(req, [call |-> NoCall, engine |-> "none",
                                       promise |-> single.promise, runs |-> 0])
                        /\ files' = single.files
               ELSE /\ Enter(req, IF getOutputSettings(settings).ok
                                   THEN mergeCommand(segments, transitions)
                                   ELSE Refuse(getOutputSettings(settings).error))
                    /\ UNCHANGED files
    /\ UNCHANGED <<cleanupLog, batch, libraryVars>>

(***************************************************************************)
(* Spec: the engine's events, handled by executeCommand (main.js 214-244)  *)
(* and by the .then/.catch of the method that called it                    *)
(***************************************************************************)
\* 'start'
OnStart ==
    /\ engine = "spawned"
    /\ engine' = "running"
    /\ events' = Deliver(sendProgress(call.operation, "started",
                                      [segmentId |-> call.segmentId]))
    /\ UNCHANGED <<files, request, call, promise, invocations, cleanupLog, batch,
                   libraryVars>>

\* 'progress': the engine has opened its output by the time it reports
OnProgress ==
    /\ engine = "running"
    /\ InputsPresent
    /\ Len(SelectSeq(events, LAMBDA e : e.stage = "processing")) < MaxProgress
    /\ \E progress \in RawProgress :
           events' = Deliver(sendProgress(call.operation, "processing",
                                          [segmentId |-> call.segmentId,
                                           percent   |-> clampPercent(progress)]))
    /\ files' = [files EXCEPT ![call.outputPath] = "partial"]
    /\ UNCHANGED <<request, call, engine, promise, invocations, cleanupLog, batch,
                   libraryVars>>

\* the value the calling method resolves with
resultOf(command) ==
    IF command.operation = "trim"
    THEN [success |-> TRUE, outputPath |-> command.outputPath,
          segmentId |-> command.segmentId]
    ELSE [success |-> TRUE, outputPath |-> command.outputPath]

\* 'end': the output is complete; the caller's .then runs
OnEnd ==
    /\ engine = "running"
    /\ InputsPresent
    /\ engine' = "ended"
    /\ events' = Deliver(sendProgress(call.operation, "completed",
                                      [segmentId |-> call.segmentId]))
    /\ \E failing \in SUBSET {call.segments[i].path : i \in 1 .. Len(call.segments)} :
           LET written == [files EXCEPT ![call.outputPath] = "complete"]
               cleaned == cleanupSegments(written, call.segments, failing)
           IN  IF call.operation = "merge"
               THEN /\ files' = cleaned.files
                    /\ cleanupLog' = cleaned.log
               ELSE /\ files' = written
                    /\ UNCHANGED cleanupLog
    /\ promise' = Resolved(resultOf(call))
    /\ UNCHANGED <<request, call, invocations, batch, libraryVars>>

\* the error the engine reports: it could not start, or it failed while running
engineError == Error(IF engine = "spawned" THEN "spawn ffmpeg ENOENT"
                     ELSE "ffmpeg exited with code 1", <<>>)

\* 'error': the caller's .catch(reject) runs
OnError ==
    /\ engine \in {"spawned", "running"}
    /\ engine' = "errored"
    /\ events' = Deliver(sendProgress(call.operation, "error",
                                      [segmentId |-> call.segmentId,
                                       error     |-> engineError.message]))
    /\ promise' = Rejected(engineError)
    /\ UNCHANGED <<files, request, call, invocations, cleanupLog, batch, libraryVars>>

(***************************************************************************)
(* Spec: mediaAPI.processBatch (part_000 84-108)                           *)
(***************************************************************************)
\* the switch on operation.type; main.js registers no 'apply-effect' handler
dispatch(operation) ==
    CASE operation.type = "trim" -> trimVideoSegment(operation.options)
      [] operation.type = "extract-audio" -> audioCommand("extract-audio")
      [] operation.type = "apply-effect" ->
            Refuse(Error("No handler registered for 'apply-effect'", <<>>))
      [] OTHER -> Refuse(Error("Unknown operation type", <<operation.type>>))

resultEntry_AlwaysSuccess(operation, settled) ==
    [success |-> TRUE, result |-> settled, operationId |-> operation.id]

\* results.push(...) of the try block or of the catch block
resultEntry(operation, settled) ==
    IF settled.state = "resolved"
    THEN [success |-> TRUE, result |-> settled.value, operationId |-> operation.id]
    ELSE [success |-> FALSE, error |-> settled.error, operationId |-> operation.id]

\* processBatch(operations) up to the first await
ProcessBatch ==
    /\ Idle
    /\ \E operations \in Batches :
           LET req == [entry |-> "processBatch", operations |-> operations]
           IN  IF Len(operations) = 0
               THEN /\ Enter(req, [call |-> NoCall, engine |-> "none",
                                   promise |-> [state |-> "none"], runs |-> 0])
                    /\ batch' = [idx |-> 0, results |-> <<>>, done |-> TRUE]
               ELSE /\ Enter(req, dispatch(operations[1]))
                    /\ batch' = [idx |-> 1, results |-> <<>>, done |-> FALSE]
    /\ UNCHANGED <<files, cleanupLog, libraryVars>>

\* the awaited call has settled: push its entry, then the next iteration or return
BatchNext ==
    /\ request.entry = "processBatch"
    /\ ~batch.done
    /\ Settled
    /\ LET operations == request.operations
           results    == Append(batch.results,
                                resultEntry(operations[batch.idx], promise))
       IN  IF batch.idx < Len(operations)
           THEN /\ Enter(request, dispatch(operations[batch.idx + 1]))
                /\ batch' = [idx |-> batch.idx + 1, results |-> results, done |-> FALSE]
           ELSE /\ batch' = [batch EXCEPT !.results = results, !.done = TRUE]
                /\ UNCHANGED <<request, call, engine, promise, invocations, events>>
    /\ UNCHANGED <<files, cleanupLog, libraryVars>>

(***************************************************************************)
(* Spec                                                                    *)
(***************************************************************************)
\* the temp directory: empty, or holding the segments earlier trims wrote
TempDirs ==
    {[p \in Paths |-> "absent"],
     [p \in Paths |-> IF p.kind = "segment" THEN "complete" ELSE "absent"]}

PipelineIdle ==
    /\ request = NoRequest
    /\ call = NoCall
    /\ engine = "none"
    /\ events = <<>>
    /\ promise = [state |-> "none"]
    /\ invocations = 0
    /\ cleanupLog = {}
    /\ batch = NoBatch

FilterIdle ==
    /\ fPhase = "idle"
    /\ fSegments = <<>>
    /\ fTransitions = <<>>
    /\ fGraph = <<>>

PresetIdle ==
    /\ qPhase = "idle"
    /\ qInput = <<>>
    /\ qResult = <<>>

EstimateIdle ==
    /\ ePhase = "idle"
    /\ eInput = <<>>
    /\ eResult = <<>>

\* a tracker as createProgressTracker returns it
NoCalls == [cause |-> "none", calls |-> <<>>]
TrackerIdle ==
    /\ tOperations = <<>>
    /\ tCallbacks = {}
    /\ tListeners = {}
    /\ tUnsubscribed = {}
    /\ tLast = NoCalls

\* thumbnailCache: new Map(), over the files a caller asks about
CacheFiles == {"a.mp4", "b.mp4"}
NoEntry == [cached |-> FALSE]
CacheIdle ==
    /\ cClock = 0
    /\ cTicks = 0
    /\ cCache = [f \in CacheFiles |-> NoEntry]
    /\ cLast = [op |-> "none"]

Init ==
    /\ files \in TempDirs
    /\ PipelineIdle
    /\ FilterIdle
    /\ PresetIdle
    /\ EstimateIdle
    /\ TrackerIdle
    /\ CacheIdle

Next ==
    \/ ProcessMediaTrim
    \/ TrimVideoSegment
    \/ ExtractAudio
    \/ ReplaceAudio
    \/ MergeVideos
    \/ ProcessBatch
    \/ BatchNext
    \/ OnStart
    \/ OnProgress
    \/ OnEnd
    \/ OnError

Spec == Init /\ [][Next]_vars

(***************************************************************************)
(* SpecFilter                                                              *)
(***************************************************************************)
InitFilter ==
    /\ files = [p \in Paths |-> "absent"]
    /\ PipelineIdle
    /\ fPhase = "input"
    /\ fSegments \in FilterSegmentLists
    /\ fTransitions \in FilterTransitionLists
    /\ fGraph = <<>>
    /\ PresetIdle
    /\ EstimateIdle
    /\ TrackerIdle
    /\ CacheIdle

\* const filterComplex = this.buildMergeFilter(segments, transitions)
BuildFilter ==
    /\ fPhase = "input"
    /\ fPhase' = "built"
    /\ fGraph' = buildMergeFilter(fSegments, fTransitions)
    /\ UNCHANGED <<fSegments, fTransitions, pipelineVars,
                   presetVars, estimateVars, trackerVars, cacheVars>>

NextFilter == BuildFilter

SpecFilter == InitFilter /\ [][NextFilter]_vars

(***************************************************************************)
(* SpecPresets                                                             *)
(***************************************************************************)
\* quality names: the five presets, a name outside them, the empty string
QualityNames == DOMAIN getQualityPresets \cup {"lossless", ""}
ResolutionNames == DOMAIN resolutionMap \cup {"8K"}

\* the fields a caller may set or leave out
PresetFields(quality, resolution, bitrate) ==
    (IF quality = "absent" THEN <<>> ELSE [quality |-> quality])
    @@ (IF resolution = "absent" THEN <<>> ELSE [resolution |-> resolution])
    @@ (IF bitrate < 0 THEN <<>> ELSE [bitrate |-> bitrate])

\* one argument for both lookups: the settings of a merge, and the
\* startTime and effects a trim reads beside its quality
PresetInputs ==
    {PresetFields(quality, resolution, bitrate)
        @@ [startTime |-> Number(startTime), effects |-> effects] :
        quality \in QualityNames \cup {"absent"},
        resolution \in ResolutionNames \cup {"absent"},
        bitrate \in {-1, 0, 12},
        startTime \in {0, 5},
        effects \in {<<>>, <<"blur">>}}

InitPresets ==
    /\ files = [p \in Paths |-> "absent"]
    /\ PipelineIdle
    /\ FilterIdle
    /\ qPhase = "input"
    /\ qInput \in PresetInputs
    /\ qResult = <<>>
    /\ EstimateIdle
    /\ TrackerIdle
    /\ CacheIdle

\* const outputSettings = this.getOutputSettings(settings)
ResolveOutputSettings ==
    /\ qPhase = "input"
    /\ qPhase' = "merge"
    /\ qResult' = getOutputSettings(qInput)
    /\ UNCHANGED <<qInput, pipelineVars, filterVars, estimateVars, trackerVars,
                   cacheVars>>

\* the quality lookup and the encoding branch of trimSegment(options)
ResolveTrimEncoding ==
    /\ qPhase = "input"
    /\ qPhase' = "trim"
    /\ qResult' = trimEncoding(qInput)
    /\ UNCHANGED <<qInput, pipelineVars, filterVars, estimateVars, trackerVars,
                   cacheVars>>

NextPresets ==
    \/ ResolveOutputSettings
    \/ ResolveTrimEncoding

SpecPresets == InitPresets /\ [][NextPresets]_vars

(***************************************************************************)
(* SpecEstimate: encodingAPI.estimateFileSize (part_000 298-309)           *)
(* Durations and bitrates are integers, so duration * bitrate * 60 / 8 is  *)
(* a whole number of halves; it is kept doubled.                           *)
(***************************************************************************)
\* parseInt(settings.bitrate) || fallback: NaN for undefined and for a text
\* that does not start with digits
parseIntOr(settings, fallback) ==
    IF Has(settings, "bitrate") /\ Has(settings.bitrate, "num")
       /\ settings.bitrate.num # 0
    THEN settings.bitrate.num ELSE fallback

\* Math.round of a non-negative number of halves: a tie goes up
roundHalves(halves) == (halves + 1) \div 2

\* (halves / 2 / 1024).toFixed(2), as the digits before and after the point;
\* toFixed picks the larger candidate on a tie
toFixed2(halves) ==
    LET hundredths == (halves * 100 + 1024) \div 2048
    IN  [whole |-> hundredths \div 100, cents |-> hundredths % 100]

estimateFileSize_Truncates(duration, settings) ==
    LET bitrate == parseIntOr(settings, 5)
        halves  == duration * bitrate * 15
    IN  [mb |-> halves \div 2,
         gb |-> toFixed2(halves),
         formatted |-> IF halves > 2048
                       THEN [unit |-> "GB", text |-> toFixed2(halves)]
                       ELSE [unit |-> "MB", text |-> halves \div 2]]

\* encodingAPI.estimateFileSize(duration, settings)
estimateFileSize(duration, settings) ==
    LET bitrate == parseIntOr(settings, 5)
        halves  == duration * bitrate * 15
    IN  [mb |-> roundHalves(halves),
         gb |-> toFixed2(halves),
         formatted |-> IF halves > 2048
                       THEN [unit |-> "GB", text |-> toFixed2(halves)]
                       ELSE [unit |-> "MB", text |-> roundHalves(halves)]]

\* durations in minutes: a dense range and a five-hour recording
Durations == 0 .. MaxDuration \cup {300}

\* settings.bitrate: left out, a number, the text of a number, another text
EstimateSettings ==
    {<<>>} \cup {[bitrate |-> b] :
                   b \in {Number(0), Number(5), Number(8), Number(12), String(8),
                          [str |-> TRUE, text |-> "auto"]}}

InitEstimate ==
    /\ files = [p \in Paths |-> "absent"]
    /\ PipelineIdle
    /\ FilterIdle
    /\ PresetIdle
    /\ ePhase = "input"
    /\ eInput \in [duration : Durations, settings : EstimateSettings]
    /\ eResult = <<>>
    /\ TrackerIdle
    /\ CacheIdle

EstimateFileSize ==
    /\ ePhase = "input"
    /\ ePhase' = "estimated"
    /\ eResult' = estimateFileSize(eInput.duration, eInput.settings)
    /\ UNCHANGED <<eInput, pipelineVars, filterVars, presetVars, trackerVars,
                   cacheVars>>

NextEstimate == EstimateFileSize

SpecEstimate == InitEstimate /\ [][NextEstimate]_vars

(***************************************************************************)
(* SpecTracker: eventAPI.createProgressTracker (part_000 140-177)          *)
(* track() call number i passes callback number i, so the callbacks are    *)
(* distinct and the Set iterates them in ascending order.                  *)
(***************************************************************************)
\* JS numbers that need not be integers, as fractions; den = 0 is NaN
Fraction(num, den) == [num |-> num, den |-> den]

\* x || 0: NaN and 0 are falsy
orZero(x) == IF x.num = 0 THEN Fraction(0, 1) ELSE x

\* progress.operation + (progress.segmentId || '')
operationKey(progress) == <<progress.operation, progress.segmentId>>

\* Map.prototype.set: a known key keeps its place, a new key goes last
mapSet(map, key, value) ==
    IF \E i \in 1 .. Len(map) : map[i].key = key
    THEN [i \in 1 .. Len(map) |->
             IF map[i].key = key THEN [key |-> key, value |-> value] ELSE map[i]]
    ELSE Append(map, [key |-> key, value |-> value])

\* Array.from(this.operations.values())
mapValues(map) == [i \in 1 .. Len(map) |-> map[i].value]

aggregate_NoZeroGuard(allOperations) ==
    LET percents == [i \in 1 .. Len(allOperations) |-> allOperations[i].percent]
    IN  [totalPercent |-> Fraction(SumTo(percents, Len(percents)), Len(allOperations)),
         isComplete   |-> \A i \in 1 .. Len(allOperations) :
                              allOperations[i].stage = "completed",
         hasError     |-> \E i \in 1 .. Len(allOperations) :
                              allOperations[i].stage = "error",
         operations   |-> allOperations]

aggregate_AnyComplete(allOperations) ==
    LET percents == [i \in 1 .. Len(allOperations) |-> allOperations[i].percent]
    IN  [totalPercent |-> orZero(Fraction(SumTo(percents, Len(percents)),
                                          Len(allOperations))),
         isComplete   |-> \E i \in 1 .. Len(allOperations) :
                              allOperations[i].stage = "completed",
         hasError     |-> \E i \in 1 .. Len(allOperations) :
                              allOperations[i].stage = "error",
         operations   |-> allOperations]

\* the object notifyCallbacks hands to every callback
aggregate(allOperations) ==
    LET percents == [i \in 1 .. Len(allOperations) |-> allOperations[i].percent]
    IN  [totalPercent |-> orZero(Fraction(SumTo(percents, Len(percents)),
                                          Len(allOperations))),
         isComplete   |-> \A i \in 1 .. Len(allOperations) :
                              allOperations[i].stage = "completed",
         hasError     |-> \E i \in 1 .. Len(allOperations) :
                              allOperations[i].stage = "error",
         operations   |-> allOperations]

\* this.callbacks.forEach: the callbacks in insertion order
RECURSIVE inOrder(_)
inOrder(callbacks) ==
    IF callbacks = {} THEN <<>>
    ELSE LET first == CHOOSE c \in callbacks : \A d \in callbacks : c <= d
         IN  <<first>> \o inOrder(callbacks \ {first})

\* tracker.notifyCallbacks(): the callback invocations it makes, in order
notifyCallbacks(operations, callbacks) ==
    LET order == inOrder(callbacks)
    IN  [i \in 1 .. Len(order) |->
            [callback |-> order[i], aggregate |-> aggregate(mapValues(operations))]]

\* the invocations made by n listeners running one after another
RECURSIVE repeated(_, _)
repeated(calls, n) == IF n = 0 THEN <<>> ELSE calls \o repeated(calls, n - 1)

\* what the main process sends on 'operation-progress' (main.js 214-244)
TrackedOperations ==
    {[operation |-> "trim", segmentId |-> 1],
     [operation |-> "trim", segmentId |-> 2],
     [operation |-> "merge", segmentId |-> NullSegmentId]}

ProgressData ==
    UNION {{sendProgress(o.operation, "started", [segmentId |-> o.segmentId]),
            sendProgress(o.operation, "completed", [segmentId |-> o.segmentId]),
            sendProgress(o.operation, "error",
                         [segmentId |-> o.segmentId,
                          error |-> "ffmpeg exited with code 1"])}
           \cup {sendProgress(o.operation, "processing",
                              [segmentId |-> o.segmentId, percent |-> p]) :
                     p \in {40, 100}} :
           o \in TrackedOperations}

InitTracker ==
    /\ files = [p \in Paths |-> "absent"]
    /\ PipelineIdle
    /\ FilterIdle
    /\ PresetIdle
    /\ EstimateIdle
    /\ TrackerIdle
    /\ CacheIdle

\* tracker.track(operationId, callback)
Track ==
    /\ Cardinality(tListeners \cup tUnsubscribed) < MaxCallbacks
    /\ LET callback == Cardinality(tListeners \cup tUnsubscribed) + 1
       IN  /\ tCallbacks' = tCallbacks \cup {callback}
           /\ tListeners' = tListeners \cup {callback}
    /\ tLast' = NoCalls
    /\ UNCHANGED <<tOperations, tUnsubscribed, pipelineVars, filterVars,
                   presetVars, estimateVars, cacheVars>>

\* the function a track() call returned: ipcRenderer.removeListener
Unsubscribe ==
    /\ \E listener \in tListeners :
          /\ tListeners' = tListeners \ {listener}
          /\ tUnsubscribed' = tUnsubscribed \cup {listener}
    /\ tLast' = NoCalls
    /\ UNCHANGED <<tOperations, tCallbacks, pipelineVars, filterVars,
                   presetVars, estimateVars, cacheVars>>

\* one 'operation-progress' message: every attached listener builds the
\* progress object, stores it under its key and calls notifyCallbacks
ProgressEvent ==
    /\ \E data \in ProgressData :
          LET progress   == handler(data)
              operations == IF tListeners = {} THEN tOperations
                            ELSE mapSet(tOperations, operationKey(progress), progress)
          IN  /\ tOperations' = operations
              /\ tLast' = [cause |-> "event",
                           calls |-> repeated(notifyCallbacks(operations, tCallbacks),
                                              Cardinality(tListeners))]
    /\ UNCHANGED <<tCallbacks, tListeners, tUnsubscribed, pipelineVars, filterVars,
                   presetVars, estimateVars, cacheVars>>

\* tracker.notifyCallbacks() called by the tracker's owner
NotifyCallbacks ==
    /\ tLast' = [cause |-> "notify", calls |-> notifyCallbacks(tOperations, tCallbacks)]
    /\ UNCHANGED <<tOperations, tCallbacks, tListeners, tUnsubscribed, pipelineVars,
                   filterVars, presetVars, estimateVars, cacheVars>>

\* tracker.clear()
Clear ==
    /\ tOperations' = <<>>
    /\ tCallbacks' = {}
    /\ tLast' = NoCalls
    /\ UNCHANGED <<tListeners, tUnsubscribed, pipelineVars, filterVars,
                   presetVars, estimateVars, cacheVars>>

NextTracker ==
    \/ Track
    \/ Unsubscribe
    \/ ProgressEvent
    \/ NotifyCallbacks
    \/ Clear

SpecTracker == InitTracker /\ [][NextTracker]_vars

(***************************************************************************)
(* SpecCache: cacheAPI (part_000 393-427); times are in milliseconds       *)
(***************************************************************************)
\* the literal 3600000 of getCachedThumbnail and of clearExpiredCache
CacheDuration == 3600000

Null == [null |-> TRUE]
ThumbnailPath(filePath) == [thumbnail |-> filePath]

\* cacheAPI.cacheThumbnail(filePath, thumbnailPath) at time `now`
cacheThumbnail(cache, filePath, thumbnailPath, now) ==
    [cache EXCEPT ![filePath] =
        [cached |-> TRUE, path |-> thumbnailPath, timestamp |-> now]]

\* cacheAPI.getCachedThumbnail(filePath) at time `now`
getCachedThumbnail(cache, filePath, now) ==
    IF cache[filePath].cached /\ now - cache[filePath].timestamp < CacheDuration
    THEN cache[filePath].path
    ELSE Null

\* cacheAPI.clearExpiredCache() at time `now`
clearExpiredCache(cache, now) ==
    [f \in DOMAIN cache |->
        IF cache[f].cached /\ now - cache[f].timestamp > CacheDuration
        THEN NoEntry ELSE cache[f]]

\* how far Date.now() moves between two calls
ClockSteps == {1, CacheDuration - 1}

InitCache ==
    /\ files = [p \in Paths |-> "absent"]
    /\ PipelineIdle
    /\ FilterIdle
    /\ PresetIdle
    /\ EstimateIdle
    /\ TrackerIdle
    /\ CacheIdle

CacheThumbnail ==
    /\ \E filePath \in CacheFiles :
          /\ cCache' = cacheThumbnail(cCache, filePath, ThumbnailPath(filePath), cClock)
          /\ cLast' = [op |-> "cache", file |-> filePath]
    /\ UNCHANGED <<cClock, cTicks, pipelineVars, filterVars, presetVars,
                   estimateVars, trackerVars>>

GetCachedThumbnail ==
    /\ \E filePath \in CacheFiles :
          cLast' = [op |-> "get", file |-> filePath,
                    returned |-> getCachedThumbnail(cCache, filePath, cClock)]
    /\ UNCHANGED <<cClock, cTicks, cCache, pipelineVars, filterVars, presetVars,
                   estimateVars, trackerVars>>

ClearExpiredCache ==
    /\ cCache' = clearExpiredCache(cCache, cClock)
    /\ cLast' = [op |-> "clear"]
    /\ UNCHANGED <<cClock, cTicks, pipelineVars, filterVars, presetVars,
                   estimateVars, trackerVars>>

\* time passes
Tick ==
    /\ cTicks < MaxTicks
    /\ \E step \in ClockSteps : cClock' = cClock + step
    /\ cTicks' = cTicks + 1
    /\ cLast' = [op |-> "tick"]
    /\ UNCHANGED <<cCache, pipelineVars, filterVars, presetVars, estimateVars,
                   trackerVars>>

NextCache ==
    \/ CacheThumbnail
    \/ GetCachedThumbnail
    \/ ClearExpiredCache
    \/ Tick

SpecCache == InitCache /\ [][NextCache]_vars

(***************************************************************************)
(* Properties of Spec                                                      *)
(***************************************************************************)
\* the request reached a method of the main process
Submitted ==
    \/ call # NoCall
    \/ request.entry = "mergeVideos" /\ Len(request.segments) >= 1

TerminalEvents == {i \in 1 .. Len(events) : events[i].stage \in TerminalStages}

\* C1: the percent values of the events delivered to a subscriber for one
\* operation never decrease from one event to a later one.
C1_PercentNonDecreasing ==
    \A i, j \in 1 .. Len(events) :
        i < j => events[i].percent <= events[j].percent

\* C2: the event stream of a submitted operation holds no event after a
\* terminal one, and once the operation has settled it holds exactly one
\* terminal event.
C2_ExactlyOneTerminalEvent ==
    /\ \A i \in TerminalEvents : i = Len(events)
    /\ (Submitted /\ Settled) => Cardinality(TerminalEvents) = 1

\* the trims of a batch that prepares the segments of a merge
CompositeOfTrims ==
    /\ request.entry = "processBatch"
    /\ \A i \in 1 .. Len(request.operations) : request.operations[i].type = "trim"

FailedEntries == {k \in 1 .. Len(batch.results) : ~batch.results[k].success}

\* C3: when a sub-operation of a composite fails, no later sub-operation is
\* started, the segment files the earlier sub-operations wrote are released,
\* and the failure is the only one reported.
C3_FirstFailureStopsComposite ==
    CompositeOfTrims =>
        \A k \in FailedEntries :
            /\ batch.idx = k
            /\ \A i \in 1 .. k - 1 :
                   batch.results[i].success => files[SegmentPath(i)] = "absent"
            /\ FailedEntries = {k}

\* C4: when the engine run ends with an error, the last event is an error
\* event carrying the engine's message, the caller's promise is rejected with
\* that error, and no partially written file is left at outputPath.
C4_ErrorRemovesPartialOutput ==
    engine = "errored" =>
        /\ Len(events) > 0
        /\ events[Len(events)].stage = "error"
        /\ promise.state = "rejected"
        /\ events[Len(events)].error = promise.error.message
        /\ files[call.outputPath] # "partial"

MergeSucceeded == request.entry = "mergeVideos" /\ promise.state = "resolved"

\* C5 as written: after a successful merge the output exists at outputPath
\* and every segment file has been deleted.
C5_AllSegmentsReleased ==
    MergeSucceeded =>
        /\ files[OutputPath] = "complete"
        /\ \A i \in 1 .. Len(request.segments) :
               files[request.segments[i].path] = "absent"

\* C5, amended: after a successful merge the output exists at outputPath and
\* every segment file has been deleted, except, with two or more segments,
\* the files whose deletion threw (the error is logged, the merge succeeds).
C5_SegmentsReleasedUnlessUnlinkFails ==
    MergeSucceeded =>
        /\ files[OutputPath] = "complete"
        /\ \A i \in 1 .. Len(request.segments) :
               \/ files[request.segments[i].path] = "absent"
               \/ /\ Len(request.segments) >= 2
                  /\ request.segments[i].path \in cleanupLog
        /\ Len(request.segments) = 1 => cleanupLog = {}

\* a merge of the largest size succeeded; one deletion threw, the others did not
C5_Witness ==
    /\ MergeSucceeded
    /\ Len(request.segments) = MaxSegments
    /\ Cardinality(cleanupLog) = 1
    /\ \E i \in 1 .. Len(request.segments) : files[request.segments[i].path] = "absent"

\* startTime < 0 or endTime <= startTime
InvalidTrim(options) ==
    \/ options.startTime.num < 0
    \/ options.endTime.num <= options.startTime.num

\* C6: a trim with startTime < 0 or endTime <= startTime is rejected (whatever
\* the validation message) and never reaches the engine, on processMedia.trim,
\* on trimVideoSegment and on processBatch with type 'trim'.
C6_InvalidTrimRejected ==
    /\ (/\ request.entry \in {"processMedia.trim", "trimVideoSegment"}
        /\ InvalidTrim(request.options))
           => /\ invocations = 0
              /\ promise.state = "rejected"
    /\ (/\ request.entry = "processBatch"
        /\ batch.idx >= 1
        /\ ~batch.done
        /\ request.operations[batch.idx].type = "trim"
        /\ InvalidTrim(request.operations[batch.idx].options))
           => /\ call = NoCall
              /\ promise.state = "rejected"

\* a transitions list that is not empty and does not fit the segments
MismatchedTransitions(segments, transitions) ==
    /\ Len(transitions) > 0
    /\ \/ Len(transitions) # Len(segments) - 1
       \/ \E i \in 1 .. Len(transitions) :
              \/ ~Has(transitions[i], "duration")
              \/ transitions[i].duration <= 0

\* C10: a merge whose non-empty transitions list has the wrong length, or an
\* entry without a positive duration, is rejected and starts no engine run.
C10_MismatchedTransitionsRejected ==
    (/\ request.entry = "mergeVideos"
     /\ MismatchedTransitions(request.segments, request.transitions))
        => /\ promise.state = "rejected"
           /\ invocations = 0
           /\ call = NoCall

(***************************************************************************)
(* Properties of SpecFilter                                                *)
(***************************************************************************)
XfadePositions(graph) == {p \in 1 .. Len(graph) : graph[p].k = "xfade"}
ConcatPositions(graph) == {p \in 1 .. Len(graph) : graph[p].k = "concat"}
InputPadPositions(graph) ==
    {p \in 1 .. Len(graph) : graph[p].k = "label" /\ graph[p].base = "input"}

\* C7: for N >= 2 segments and no transitions the graph is the N pairs
\* [i:v][i:a], i = 0..N-1 in order, then one concat node with n = N, then
\* [outv][outa].
C7_ConcatGraph ==
    (fPhase = "built" /\ Len(fTransitions) = 0) =>
        LET n == Len(fSegments)
        IN  /\ Len(fGraph) = 2 * n + 3
            /\ \A i \in 0 .. n - 1 :
                   /\ fGraph[2 * i + 1] =
                          [k |-> "label", base |-> "input", media |-> "v", idx |-> i]
                   /\ fGraph[2 * i + 2] =
                          [k |-> "label", base |-> "input", media |-> "a", idx |-> i]
            /\ Cardinality(InputPadPositions(fGraph)) = 2 * n
            /\ ConcatPositions(fGraph) = {2 * n + 1}
            /\ fGraph[2 * n + 1].n = n
            /\ fGraph[2 * n + 1].v = 1
            /\ fGraph[2 * n + 1].a = 1
            /\ fGraph[2 * n + 2] = [k |-> "label", base |-> "out", media |-> "v", idx |-> 0]
            /\ fGraph[2 * n + 3] = [k |-> "label", base |-> "out", media |-> "a", idx |-> 0]

\* a graph was built for three or more segments and no transitions
C7_Witness ==
    /\ fPhase = "built"
    /\ Len(fTransitions) = 0
    /\ Len(fSegments) >= 3
    /\ Len(fGraph) > 0

ExactTransitions ==
    /\ fPhase = "built"
    /\ Len(fTransitions) = Len(fSegments) - 1

\* C8 as written: with exactly N-1 transitions the graph holds N-2 xfade nodes.
C8_XfadeCountNMinus2 ==
    ExactTransitions => Cardinality(XfadePositions(fGraph)) = Len(fSegments) - 2

\* C8, amended: with exactly N-1 transitions the graph holds N-1 xfade nodes,
\* one per adjacent pair of segments, chained: the first takes [0:v][1:v],
\* each later one takes the label the one before it wrote and [i+1:v], and
\* the i-th writes [v<i>].
C8_XfadeCountNMinus1 ==
    ExactTransitions =>
        LET n == Len(fSegments)
        IN  /\ Cardinality(XfadePositions(fGraph)) = n - 1
            /\ XfadePositions(fGraph) = {5 * i + 3 : i \in 0 .. n - 2}
            /\ \A i \in 0 .. n - 2 :
                   /\ fGraph[5 * i + 4] =
                          [k |-> "label", base |-> "chain", media |-> "v", idx |-> i]
                   /\ fGraph[5 * i + 2] =
                          [k |-> "label", base |-> "input", media |-> "v", idx |-> i + 1]
                   /\ fGraph[5 * i + 1] =
                          IF i = 0
                          THEN [k |-> "label", base |-> "input", media |-> "v", idx |-> 0]
                          ELSE fGraph[5 * (i - 1) + 4]

\* a graph was built for three or more segments and one transition per pair
C8_Witness ==
    /\ ExactTransitions
    /\ Len(fSegments) >= 3
    /\ Cardinality(XfadePositions(fGraph)) >= 2

\* the duration of the first m segments
cumulativeDuration(segments, m) ==
    SumTo([k \in 1 .. m |-> segments[k].duration], m)

\* one transition per adjacent pair, each with a positive duration
WellFormedTransitions ==
    /\ ExactTransitions
    /\ \A i \in 1 .. Len(fTransitions) :
           Has(fTransitions[i], "duration") /\ fTransitions[i].duration > 0

\* C9: in a transitioned graph the i-th crossfade's offset is the cumulative
\* duration of the segments up to and including segment i, minus that
\* transition's duration.
C9_CumulativeOffset ==
    WellFormedTransitions =>
        \A i \in 0 .. Len(fSegments) - 2 :
            LET node == fGraph[5 * i + 3]
            IN  /\ node.k = "xfade"
                /\ node.duration = fTransitions[i + 1].duration
                /\ node.offset = cumulativeDuration(fSegments, i + 1) - node.duration

(***************************************************************************)
(* Properties of Spec: the single-segment merge and the batch              *)
(***************************************************************************)
SingleSegmentMerge ==
    /\ request.entry = "mergeVideos"
    /\ Len(request.segments) = 1

\* C11: a merge of exactly one segment builds no filter graph and starts no
\* engine run, whatever its transitions and settings are; when it succeeds the
\* segment file has been copied to outputPath.
C11_SingleSegmentCopied ==
    SingleSegmentMerge
        => /\ invocations = 0
           /\ engine = "none"
           /\ call = NoCall
           /\ events = <<>>
           /\ Settled
           /\ promise.state = "resolved"
                 => /\ files[OutputPath] = "complete"
                    /\ promise.value.outputPath = OutputPath

C11_Witness ==
    /\ SingleSegmentMerge
    /\ Len(request.transitions) > 0
    /\ request.settings = [quality |-> "lossless"]
    /\ promise.state = "resolved"
    /\ files[OutputPath] = "complete"

KnownTypes == {"trim", "extract-audio", "apply-effect"}

\* C18: processBatch runs its operations one after another in input order and
\* returns one entry per operation in that order; a failed operation or one of
\* unknown type yields a {success: false, error, operationId} entry and the
\* operations after it still run.
C18_BatchInOrder ==
    request.entry = "processBatch"
        => LET operations == request.operations
               results    == batch.results
           IN  /\ Len(results) = IF batch.done THEN Len(operations) ELSE batch.idx - 1
               /\ ~batch.done => (Settled \/ engine \in {"spawned", "running"})
               /\ \A i \in 1 .. Len(results) :
                     /\ results[i].operationId = operations[i].id
                     /\ operations[i].type \notin KnownTypes
                           => /\ ~results[i].success
                              /\ results[i].error.message = "Unknown operation type"
                     /\ ~results[i].success => Has(results[i], "error")
               /\ invocations =
                     Cardinality({i \in 1 .. batch.idx : dispatch(operations[i]).runs = 1})

C18_Witness ==
    /\ request.entry = "processBatch"
    /\ batch.done
    /\ Len(batch.results) = MaxSegments
    /\ \E i, j \in 1 .. Len(batch.results) :
          /\ i < j
          /\ request.operations[i].type \notin KnownTypes
          /\ ~batch.results[i].success
          /\ batch.results[j].success

\* C20: in the single-segment merge the source is deleted only after the copy
\* has succeeded: a failed copy leaves the temp directory as it was and rejects
\* the request, and a failed delete rejects the request with the output file
\* already written and the source still in place.
C20_DeleteOnlyAfterCopy ==
    SingleSegmentMerge
        => LET source == request.segments[1].path
           IN  /\ (promise.state = "rejected"
                     /\ promise.error.message = "copyFileSync failed")
                      => files \in TempDirs
               /\ (promise.state = "rejected"
                     /\ promise.error.message = "unlinkSync failed")
                      => /\ files[OutputPath] = "complete"
                         /\ files[source] = "complete"
               /\ promise.state = "resolved"
                      => /\ files[OutputPath] = "complete"
                         /\ files[source] = "absent"
               /\ (files \notin TempDirs) => files[OutputPath] = "complete"

C20_Witness ==
    /\ SingleSegmentMerge
    /\ promise.state = "rejected"
    /\ promise.error.message = "unlinkSync failed"
    /\ files[OutputPath] = "complete"
    /\ files[request.segments[1].path] = "complete"

(***************************************************************************)
(* Properties of SpecPresets                                               *)
(***************************************************************************)
\* the quality and resolution names the lookup reads, after its defaults
resolvedQuality ==
    IF qPhase = "merge" THEN nameOr(qInput, "quality", "high")
    ELSE IF Has(qInput, "quality") THEN qInput.quality ELSE "high"

resolvedResolution == nameOr(qInput, "resolution", "1080p")

UnknownName ==
    \/ resolvedQuality \notin DOMAIN getQualityPresets
    \/ qPhase = "merge" /\ resolvedResolution \notin DOMAIN resolutionMap

\* C12: the quality name 'ultra' resolves to crf 18, preset 'slow' and bitrate
\* 12 Mbps; a quality or resolution name outside the presets yields an error,
\* never an option list with a substituted or omitted preset, on the trim path
\* and on the merge output-settings path.
C12_UnknownNameIsError ==
    /\ getQualityPresets.ultra = [crf |-> 18, preset |-> "slow", bitrate |-> "12M"]
    /\ qPhase \in {"merge", "trim"}
          => /\ (qPhase = "merge" /\ resolvedQuality = "ultra" /\ qResult.ok)
                   => /\ qResult.options.crf = String(18)
                      /\ qResult.options.preset = "slow"
             /\ (qPhase = "trim" /\ resolvedQuality = "ultra" /\ qResult.ok)
                   => /\ qResult.options.crf = [text |-> "value", value |-> 18]
                      /\ qResult.options.preset = [text |-> "value", value |-> "slow"]
             /\ UnknownName => ~qResult.ok

(***************************************************************************)
(* Properties of SpecTracker                                               *)
(***************************************************************************)
Delivered == {tLast.calls[i].aggregate : i \in 1 .. Len(tLast.calls)}

LatestPercents == [i \in 1 .. Len(tOperations) |-> tOperations[i].value.percent]
LatestStages == {tOperations[i].value.stage : i \in 1 .. Len(tOperations)}

\* C13: the totalPercent of every delivered aggregate is the unweighted mean
\* of the latest percent of every tracked key, and is 0 (not NaN) when no
\* operation is tracked.
C13_TotalPercentIsMean ==
    \A delivered \in Delivered :
        LET count == Len(tOperations)
            total == delivered.totalPercent
        IN  /\ total.den > 0
            /\ count = 0 => total = Fraction(0, 1)
            /\ total.num * count = SumTo(LatestPercents, count) * total.den

C13_Witness ==
    /\ Len(tOperations) = 3
    /\ \E delivered \in Delivered : delivered.totalPercent = Fraction(140, 3)

\* C14: in every delivered aggregate isComplete holds exactly if the latest
\* stage of every tracked operation is 'completed', and hasError exactly if
\* the latest stage of some tracked operation is 'error'.
C14_FlagsMatchStages ==
    \A delivered \in Delivered :
        /\ delivered.isComplete <=> LatestStages \subseteq {"completed"}
        /\ delivered.hasError <=> "error" \in LatestStages

C14_Witness ==
    /\ Len(tOperations) >= 2
    /\ "completed" \in LatestStages
    /\ \E delivered \in Delivered : delivered.hasError /\ ~delivered.isComplete

timesInvoked(callback) ==
    Len(SelectSeq(tLast.calls, LAMBDA c : c.callback = callback))

\* C17: on a tracker whose callbacks were never cleared, an incoming
\* operation-progress event invokes each callback whose track() call is still
\* subscribed exactly once, and a callback whose unsubscribe function was
\* invoked not at all.
C17_EachCallbackOnce ==
    (tLast.cause = "event" /\ tCallbacks = tListeners \cup tUnsubscribed)
        => /\ \A callback \in tListeners : timesInvoked(callback) = 1
           /\ \A callback \in tUnsubscribed : timesInvoked(callback) = 0

(***************************************************************************)
(* Properties of SpecEstimate                                              *)
(***************************************************************************)
\* the call was made with a positive numeric bitrate
EstimatedWithBitrate(bitrate) ==
    /\ ePhase = "estimated"
    /\ eInput.settings = [bitrate |-> Number(bitrate)]

\* mb = round(duration * bitrate * 60 / 8), 'MB' below 1024 MB and 'GB' above
EstimateFormula ==
    \A bitrate \in {5, 8, 12} :
        EstimatedWithBitrate(bitrate)
            => LET doubled == eInput.duration * bitrate * 15
               IN  /\ doubled \in {2 * eResult.mb - 1, 2 * eResult.mb}
                   /\ doubled < 2048
                         => eResult.formatted = [unit |-> "MB", text |-> eResult.mb]
                   /\ doubled > 2048
                         => eResult.formatted = [unit |-> "GB", text |-> eResult.gb]

EstimateOfTenMinutes ==
    (EstimatedWithBitrate(8) /\ eInput.duration = 10)
        => /\ eResult.mb = 600
           /\ eResult.formatted = [unit |-> "MB", text |-> 600]

\* C15 as stated: bitrate 8 and duration 300 give gb = '1.76'.
C15_EstimateAsStated ==
    /\ EstimateFormula
    /\ EstimateOfTenMinutes
    /\ (EstimatedWithBitrate(8) /\ eInput.duration = 300)
          => /\ eResult.gb = [whole |-> 1, cents |-> 76]
             /\ eResult.formatted.unit = "GB"

\* C15, amended: mb = round(duration * bitrate * 60 / 8), formatted in MB
\* below 1024 MB and in GB above; bitrate 8 and duration 10 give 600 and
\* '600 MB'; bitrate 8 and duration 300 give mb = 18000, gb = '17.58' and
\* '17.58 GB'.
C15_EstimateAmended ==
    /\ EstimateFormula
    /\ EstimateOfTenMinutes
    /\ (EstimatedWithBitrate(8) /\ eInput.duration = 300)
          => /\ eResult.mb = 18000
             /\ eResult.gb = [whole |-> 17, cents |-> 58]
             /\ eResult.formatted = [unit |-> "GB", text |-> [whole |-> 17, cents |-> 58]]
    /\ \A bitrate \in {5, 8, 12} :
          EstimatedWithBitrate(bitrate)
              => LET doubled    == eInput.duration * bitrate * 15
                     hundredths == eResult.gb.whole * 100 + eResult.gb.cents
                 IN  /\ 2048 * hundredths <= 100 * doubled + 1024
                     /\ 100 * doubled + 1024 < 2048 * (hundredths + 1)
                     /\ eResult.gb.cents \in 0 .. 99

C15_Witness ==
    /\ EstimatedWithBitrate(8)
    /\ eInput.duration = 300
    /\ eResult.formatted = [unit |-> "GB", text |-> [whole |-> 17, cents |-> 58]]

(***************************************************************************)
(* Properties of SpecFilter: the labels of the graph                       *)
(***************************************************************************)
FilterNodes == {"concat", "xfade", "acrossfade"}

\* the label at p follows a filter, with nothing but labels in between
OutputOfNode(graph, p) ==
    /\ graph[p].k = "label"
    /\ \E q \in 1 .. p - 1 :
          /\ graph[q].k \in FilterNodes
          /\ \A r \in q + 1 .. p : graph[r].k = "label"

\* the label at p precedes a filter, with nothing but labels in between
ConsumedByFilter(graph, p) ==
    /\ graph[p].k = "label"
    /\ \E q \in p + 1 .. Len(graph) :
          /\ graph[q].k \in FilterNodes
          /\ \A r \in p .. q - 1 : graph[r].k = "label"

\* C16: for every N >= 2 and every transitions list, the labels mergeVideos
\* maps as outputs, [outv] and [outa], are output labels of a node of the
\* graph, and every label of the graph is the output of a node or is consumed
\* by a filter.
C16_MappedLabelsDefined ==
    fPhase = "built"
        => /\ \A media \in {"v", "a"} :
                 \E p \in 1 .. Len(fGraph) :
                    fGraph[p] = OutLabel(media) /\ OutputOfNode(fGraph, p)
           /\ \A p \in 1 .. Len(fGraph) :
                 fGraph[p].k = "label"
                    => OutputOfNode(fGraph, p) \/ ConsumedByFilter(fGraph, p)

(***************************************************************************)
(* Properties of SpecCache                                                 *)
(***************************************************************************)
\* C19: right after clearExpiredCache has run, getCachedThumbnail returns
\* non-null for every entry still in the cache; and getCachedThumbnail never
\* returns the path of an entry whose age is CacheDuration (one hour) or more.
C19_ExpiryTestsAgree ==
    /\ cLast.op = "clear"
          => \A filePath \in CacheFiles :
                cCache[filePath].cached
                    => getCachedThumbnail(cCache, filePath, cClock) # Null
    /\ (cLast.op = "get" /\ cLast.returned # Null)
          => /\ cCache[cLast.file].cached
             /\ cClock - cCache[cLast.file].timestamp < CacheDuration

====
